---- MODULE Spec2Model ----
(***************************************************************************)
(* A model of msp_parser.cpp: the MSP byte parser (MspMessageParser), the  *)
(* message handler and command dispatcher (MspMessageHandler,              *)
(* MspCommandDispatcher), the command executors, the flight data model and *)
(* the read loop of main().                                                *)
(***************************************************************************)
EXTENDS Integers, Sequences, FiniteSets, TLC

VARIABLES
    pc,           \* position of main(): "reg_console", "reg_alink", "loop", "done"
    inputType,    \* main's inputType: "udp" or "file"
    m_file,       \* FileInputSource::m_file: content, read position, good()
    bytesRead,    \* main's bytesRead, the value receiveData returned last
    outPort,      \* main's outPort (0 when no third argument was given)
    m_state,      \* MspMessageParser::m_state
    m_msg,        \* MspMessageParser::m_msg
    m_bufPtr,     \* MspMessageParser::m_bufPtr (uint16_t)
    flightModel,  \* main's FlightDataModel, the one MspCommandDispatcher refers to
    handlerModel, \* MspMessageHandler::m_dataModel (a by-value member)
    m_executors,  \* MspCommandDispatcher::m_executors: command -> list of executors
    buffer,       \* main's buffer[0..bytesRead-1], as a sequence of bytes
    i,            \* main's loop index into buffer
    registered,   \* history: the registerExecutor calls made, in call order
    wire,         \* history: the values the sender wrote, before they became bytes
    rx,           \* history: the bytes consumed since the parser last left IDLE
    startState,   \* history: m_state when the current buffer was received
    emitted,      \* history: the onMspMessage calls made while consuming this buffer
    execLog,      \* history: the executors run by the latest dispatchMessage
    sent,         \* history: the lines RcCommandAlinkForwarder sent for this buffer
    failed,       \* history: receiveData has returned a negative value
    fed           \* history: the bytes of the file passed to processByte so far

vars == <<pc, outPort, m_state, m_msg, m_bufPtr, flightModel, handlerModel,
          m_executors, buffer, i, registered, wire, rx, startState, emitted,
          execLog, sent, inputType, m_file, bytesRead, failed, fed>>

(***************************************************************************)
(* Program constants.                                                      *)
(***************************************************************************)
MSP_MAX_PAYLOAD_SIZE == 256
FRAME_BUFFER_SIZE == 1024
CHANNEL_COUNT == 18

CMD_STATUS == 101
CMD_ATTITUDE == 108
CMD_RC == 105
CMD_FC_VARIANT == 102
CMD_UNKNOWN == 255

\* sizeof(MspMessage): direction, cmd, size, checksum (one byte each) and payload
SizeofMspMessage == 4 + MSP_MAX_PAYLOAD_SIZE

\* the characters processByte compares against
CH_DOLLAR == 36
CH_M == 77
CH_LT == 60
CH_GT == 62

\* width of uint8_t, uint16_t
Pow8 == 256
Pow16 == 65536

ToUint8(v) == v % Pow8

(***************************************************************************)
(* Bitwise helpers on naturals (C's ^ and & on unsigned values).           *)
(***************************************************************************)
RECURSIVE Xor(_, _)
Xor(a, b) ==
    IF a = 0 THEN b
    ELSE IF b = 0 THEN a
    ELSE (((a % 2) + (b % 2)) % 2) + (2 * Xor(a \div 2, b \div 2))

RECURSIVE BitAnd(_, _)
BitAnd(a, b) ==
    IF a = 0 \/ b = 0 THEN 0
    ELSE ((a % 2) * (b % 2)) + (2 * BitAnd(a \div 2, b \div 2))

RECURSIVE Pow2(_)
Pow2(n) == IF n = 0 THEN 1 ELSE 2 * Pow2(n - 1)

ShiftRight(a, n) == a \div Pow2(n)

(***************************************************************************)
(* MspMessage and FlightDataModel values.                                  *)
(***************************************************************************)
PayloadIdx == 0 .. (MSP_MAX_PAYLOAD_SIZE - 1)

ZeroPayload == [j \in PayloadIdx |-> 0]

\* MspMessage after memset(&m_msg, 0, sizeof(m_msg)); m_msg.cmd = UNKNOWN
ResetMsg ==
    [direction |-> "OUTBOUND", cmd |-> CMD_UNKNOWN, size |-> 0, checksum |-> 0,
     payload |-> ZeroPayload]

\* a default-constructed FlightDataModel (frameBuffer's bytes are never read
\* by the program; the model keeps its cursor only)
InitFlightDataModel ==
    [armed |-> FALSE, pitch |-> 0, roll |-> 0, heading |-> 0,
     channels |-> [c \in 0 .. (CHANNEL_COUNT - 1) |-> 0],
     fcIdentifier |-> [c \in 0 .. 4 |-> 0],
     fbCursor |-> 0, verbose |-> TRUE]

\* FlightDataModel::flushFrameBuffer
FlushFrameBuffer(dm) == [dm EXCEPT !.fbCursor = 0]

\* the flush made only once the cursor itself is past the buffer
CopyToFrameBufferNoRoom(dm, size) ==
    LET d == IF dm.fbCursor > FRAME_BUFFER_SIZE
             THEN FlushFrameBuffer(dm) ELSE dm
    IN [d EXCEPT !.fbCursor = d.fbCursor + size]

\* FlightDataModel::copyToFrameBuffer(data, size)
CopyToFrameBuffer(dm, size) ==
    LET d == IF dm.fbCursor + size > FRAME_BUFFER_SIZE
             THEN FlushFrameBuffer(dm) ELSE dm
    IN [d EXCEPT !.fbCursor = d.fbCursor + size]

(***************************************************************************)
(* MspMessageParser.                                                       *)
(***************************************************************************)
\* the command byte kept as it was received
ToMspCommandKeep(cmd) == cmd

\* MspMessageParser::toMspCommand
ToMspCommand(cmd) ==
    CASE cmd = 101 -> CMD_STATUS
      [] cmd = 108 -> CMD_ATTITUDE
      [] cmd = 105 -> CMD_RC
      [] cmd = 102 -> CMD_FC_VARIANT
      [] OTHER -> CMD_UNKNOWN

\* a reset that leaves the payload bytes where they are
ResetParserKeepPayload ==
    [state |-> "IDLE", msg |-> [ResetMsg EXCEPT !.payload = m_msg.payload],
     bufPtr |-> 0, deliver |-> FALSE]

\* MspMessageParser::reset, as the parser fields it leaves
ResetParser == [state |-> "IDLE", msg |-> ResetMsg, bufPtr |-> 0, deliver |-> FALSE]

Keep(st, msg, ptr) == [state |-> st, msg |-> msg, bufPtr |-> ptr, deliver |-> FALSE]

CaseIdle(msg, ptr, byte) ==
    IF byte = CH_DOLLAR THEN Keep("VERSION", msg, ptr) ELSE Keep("IDLE", msg, ptr)

\* a '$' in place of 'M' taken as the start of a frame
CaseVersionRestart(msg, ptr, byte) ==
    IF byte = CH_M THEN Keep("DIRECTION", msg, ptr)
    ELSE IF byte = CH_DOLLAR THEN Keep("VERSION", ResetMsg, 0)
    ELSE ResetParser

CaseVersion(msg, ptr, byte) ==
    IF byte = CH_M THEN Keep("DIRECTION", msg, ptr) ELSE ResetParser

\* a direction byte decoded the wrong way round
CaseDirectionSwapped(msg, ptr, byte) ==
    IF byte = CH_LT THEN Keep("SIZE", [msg EXCEPT !.direction = "INBOUND"], ptr)
    ELSE IF byte = CH_GT THEN Keep("SIZE", [msg EXCEPT !.direction = "OUTBOUND"], ptr)
    ELSE ResetParser

CaseDirection(msg, ptr, byte) ==
    IF byte = CH_LT THEN Keep("SIZE", [msg EXCEPT !.direction = "OUTBOUND"], ptr)
    ELSE IF byte = CH_GT THEN Keep("SIZE", [msg EXCEPT !.direction = "INBOUND"], ptr)
    ELSE ResetParser

\* the capacity check made against the largest index instead of the capacity
CaseSizeTight(msg, ptr, byte) ==
    LET m == [msg EXCEPT !.size = byte, !.checksum = byte, !.cmd = CMD_UNKNOWN]
    IN IF m.size >= MSP_MAX_PAYLOAD_SIZE - 1 THEN ResetParser ELSE Keep("CMD", m, 0)

CaseSize(msg, ptr, byte) ==
    LET m == [msg EXCEPT !.size = byte, !.checksum = byte, !.cmd = CMD_UNKNOWN]
    IN IF m.size > MSP_MAX_PAYLOAD_SIZE THEN ResetParser ELSE Keep("CMD", m, 0)

\* the command byte always followed by the payload state
CaseCmdNoSkip(msg, ptr, byte) ==
    LET m == [msg EXCEPT !.checksum = Xor(msg.checksum, byte),
                         !.cmd = ToMspCommand(byte)]
    IN Keep("PAYLOAD", m, 0)

CaseCmd(msg, ptr, byte) ==
    LET m == [msg EXCEPT !.checksum = Xor(msg.checksum, byte),
                         !.cmd = ToMspCommand(byte)]
    IN Keep(IF m.size = 0 THEN "CHECKSUM" ELSE "PAYLOAD", m, 0)

\* one payload byte more than declared taken before the checksum
CasePayloadOneMore(msg, ptr, byte) ==
    LET m == [msg EXCEPT !.payload[ptr] = byte,
                         !.checksum = Xor(msg.checksum, byte)]
        p == (ptr + 1) % Pow16
    IN Keep(IF p = m.size + 1 THEN "CHECKSUM" ELSE "PAYLOAD", m, p)

\* a '$' among the payload bytes taken as the start of a frame
CasePayloadResync(msg, ptr, byte) ==
    IF byte = CH_DOLLAR THEN Keep("VERSION", ResetMsg, 0)
    ELSE LET m == [msg EXCEPT !.payload[ptr] = byte,
                              !.checksum = Xor(msg.checksum, byte)]
             p == (ptr + 1) % Pow16
         IN Keep(IF p = m.size THEN "CHECKSUM" ELSE "PAYLOAD", m, p)

\* a payload byte stored but left out of the running checksum
CasePayloadNoXor(msg, ptr, byte) ==
    LET m == [msg EXCEPT !.payload[ptr] = byte]
        p == (ptr + 1) % Pow16
    IN Keep(IF p = m.size THEN "CHECKSUM" ELSE "PAYLOAD", m, p)

\* payload[m_bufPtr++] = byte, with m_bufPtr a uint16_t
CasePayload(msg, ptr, byte) ==
    LET m == [msg EXCEPT !.payload[ptr] = byte,
                         !.checksum = Xor(msg.checksum, byte)]
        p == (ptr + 1) % Pow16
    IN Keep(IF p = m.size THEN "CHECKSUM" ELSE "PAYLOAD", m, p)

\* the message delivered whatever the checksum byte is
CaseChecksumAlways(msg, ptr, byte) ==
    [ResetParser EXCEPT !.deliver = TRUE]

\* deliver: m_handler.onMspMessage(m_msg) is called with the message as it is
\* before reset() clears it
CaseChecksum(msg, ptr, byte) ==
    [ResetParser EXCEPT !.deliver = (msg.checksum = byte)]

\* MspMessageParser::processByte, the parser's own fields
ParserStep(st, msg, ptr, byte) ==
    CASE st = "IDLE" -> CaseIdle(msg, ptr, byte)
      [] st = "VERSION" -> CaseVersion(msg, ptr, byte)
      [] st = "DIRECTION" -> CaseDirection(msg, ptr, byte)
      [] st = "SIZE" -> CaseSize(msg, ptr, byte)
      [] st = "CMD" -> CaseCmd(msg, ptr, byte)
      [] st = "PAYLOAD" -> CasePayload(msg, ptr, byte)
      [] st = "CHECKSUM" -> CaseChecksum(msg, ptr, byte)

(***************************************************************************)
(* Command executors.  Each takes the message and the data model and       *)
(* returns the data model it leaves and the lines it sends.                *)
(***************************************************************************)
\* a little-endian uint16_t / int16_t read at payload[off]
U16At(payload, off) == payload[off] + (Pow8 * payload[off + 1])

I16At(payload, off) ==
    LET u == U16At(payload, off) IN IF u >= 32768 THEN u - Pow16 ELSE u

\* strncmp(a, b, n) == 0 from index k on: equal bytes up to n or up to a NUL
RECURSIVE StrncmpEqualFrom(_, _, _, _)
StrncmpEqualFrom(a, b, n, k) ==
    IF k >= n THEN TRUE
    ELSE IF a[k] # b[k] THEN FALSE
    ELSE IF a[k] = 0 THEN TRUE
    ELSE StrncmpEqualFrom(a, b, n, k + 1)

StrncmpEqual(a, b, n) == StrncmpEqualFrom(a, b, n, 0)

NoOutput(dm) == [dm |-> dm, out |-> <<>>]

\* armed taken from the whole byte instead of its bit 0
StatusExecuteWholeByte(msg, dm) ==
    NoOutput(IF msg.size > 6
             THEN [dm EXCEPT !.armed = (msg.payload[6] # 0)]
             ELSE dm)

\* StatusCommandExecutor::execute
StatusExecute(msg, dm) ==
    NoOutput(IF msg.size > 6
             THEN [dm EXCEPT !.armed = (BitAnd(msg.payload[6], 1) # 0)]
             ELSE dm)

\* roll and pitch read from each other's offset
AttitudeExecuteSwapped(msg, dm) ==
    NoOutput(IF msg.size >= 6
             THEN [dm EXCEPT !.roll = I16At(msg.payload, 2),
                             !.pitch = I16At(msg.payload, 0),
                             !.heading = I16At(msg.payload, 4)]
             ELSE dm)

\* AttitudeCommandExecutor::execute
AttitudeExecute(msg, dm) ==
    NoOutput(IF msg.size >= 6
             THEN [dm EXCEPT !.roll = I16At(msg.payload, 0),
                             !.pitch = I16At(msg.payload, 2),
                             !.heading = I16At(msg.payload, 4)]
             ELSE dm)

\* three bytes of the identifier copied instead of four
FcVariantExecuteThree(msg, dm) ==
    NoOutput(IF msg.size >= 4 /\ ~StrncmpEqual(dm.fcIdentifier, msg.payload, 4)
             THEN [dm EXCEPT !.fcIdentifier =
                      [c \in 0 .. 4 |-> IF c < 3 THEN msg.payload[c] ELSE 0]]
             ELSE dm)

\* FcVariantCommandExecutor::execute
FcVariantExecute(msg, dm) ==
    NoOutput(IF msg.size >= 4 /\ ~StrncmpEqual(dm.fcIdentifier, msg.payload, 4)
             THEN [dm EXCEPT !.fcIdentifier =
                      [c \in 0 .. 4 |-> IF c < 4 THEN msg.payload[c] ELSE 0]]
             ELSE dm)

\* all CHANNEL_COUNT channels copied from the payload
RcConsoleExecuteAllChannels(msg, dm) ==
    NoOutput(IF msg.size >= 16 * 2
             THEN [dm EXCEPT !.channels =
                      [c \in 0 .. (CHANNEL_COUNT - 1) |-> U16At(msg.payload, 2 * c)]]
             ELSE dm)

\* the channels copied whatever the declared length
RcConsoleExecuteUnchecked(msg, dm) ==
    NoOutput([dm EXCEPT !.channels =
                 [c \in 0 .. (CHANNEL_COUNT - 1) |->
                     IF c < 16 THEN U16At(msg.payload, 2 * c)
                     ELSE dm.channels[c]]])

\* RcCommandConsoleExecutor::execute
RcConsoleExecute(msg, dm) ==
    NoOutput(IF msg.size >= 16 * 2
             THEN [dm EXCEPT !.channels =
                      [c \in 0 .. (CHANNEL_COUNT - 1) |->
                          IF c < 16 THEN U16At(msg.payload, 2 * c)
                          ELSE dm.channels[c]]]
             ELSE dm)

\* the lost and recovered counts written in each other's place
AlinkLineSwapped(link_quality, recovered_packets, lost_packets) ==
    <<link_quality, link_quality, lost_packets, recovered_packets, 20, 20, 20, 20>>

\* snprintf "%ld:%d:%d:%d:%d:20:20:20:20": the fields of the line after the
\* timestamp, which comes from the clock and is not part of the model
AlinkLine(link_quality, recovered_packets, lost_packets) ==
    <<link_quality, link_quality, recovered_packets, lost_packets, 20, 20, 20, 20>>

\* RcCommandAlinkForwarder::execute
RcAlinkExecute(msg, dm) ==
    [dm |-> dm,
     out |-> IF msg.size >= 16 * 2
             THEN LET link_quality == dm.channels[8]
                      lost_packets == BitAnd(dm.channels[10], 31)
                      recovered_packets == BitAnd(ShiftRight(dm.channels[11], 5), 31)
                  IN << AlinkLine(link_quality, recovered_packets, lost_packets) >>
             ELSE <<>>]

ExecutorKinds == {"Status", "Attitude", "FcVariant", "RcConsole", "RcAlink"}

\* the virtual call exec->execute(msg, m_dataModel)
Execute(kind, msg, dm) ==
    CASE kind = "Status" -> StatusExecute(msg, dm)
      [] kind = "Attitude" -> AttitudeExecute(msg, dm)
      [] kind = "FcVariant" -> FcVariantExecute(msg, dm)
      [] kind = "RcConsole" -> RcConsoleExecute(msg, dm)
      [] kind = "RcAlink" -> RcAlinkExecute(msg, dm)

(***************************************************************************)
(* MspCommandDispatcher and MspMessageHandler.                             *)
(***************************************************************************)
\* the executor map after MspCommandDispatcher's constructor
InitExecutors ==
    [c \in {CMD_STATUS, CMD_ATTITUDE, CMD_FC_VARIANT} |->
        CASE c = CMD_STATUS -> <<"Status">>
          [] c = CMD_ATTITUDE -> <<"Attitude">>
          [] c = CMD_FC_VARIANT -> <<"FcVariant">>]

\* the executor put in front of the list
RegisterIntoFront(execs, cmd, kind) ==
    [c \in (DOMAIN execs) \cup {cmd} |->
        IF c = cmd
        THEN <<kind>> \o (IF cmd \in DOMAIN execs THEN execs[cmd] ELSE <<>>)
        ELSE execs[c]]

\* m_executors[cmd].push_back(executor)
RegisterInto(execs, cmd, kind) ==
    [c \in (DOMAIN execs) \cup {cmd} |->
        IF c = cmd
        THEN (IF cmd \in DOMAIN execs THEN execs[cmd] ELSE <<>>) \o <<kind>>
        ELSE execs[c]]

\* the executor list walked from its end
RECURSIVE RunExecutorsReversed(_, _, _, _)
RunExecutorsReversed(list, k, msg, run) ==
    IF k > Len(list) THEN run
    ELSE LET e == list[Len(list) + 1 - k]
             r == Execute(e, msg, run.dm)
         IN RunExecutorsReversed(list, k + 1, msg,
                [dm |-> r.dm,
                 log |-> Append(run.log, [exec |-> e, saw |-> run.dm]),
                 out |-> run.out \o r.out])

\* the loop of dispatchMessage over one executor list, from its k-th entry:
\* run holds the data model, the log of executors run with the data model
\* each was handed, and the lines sent
RECURSIVE RunExecutors(_, _, _, _)
RunExecutors(list, k, msg, run) ==
    IF k > Len(list) THEN run
    ELSE LET r == Execute(list[k], msg, run.dm)
         IN RunExecutors(list, k + 1, msg,
                [dm |-> r.dm,
                 log |-> Append(run.log, [exec |-> list[k], saw |-> run.dm]),
                 out |-> run.out \o r.out])

\* a command without an entry handed to every registered executor
DispatchMessageAll(execs, msg, dm) ==
    IF msg.cmd \in DOMAIN execs
    THEN RunExecutors(execs[msg.cmd], 1, msg, [dm |-> dm, log |-> <<>>, out |-> <<>>])
    ELSE RunExecutors(execs[CMD_STATUS] \o execs[CMD_FC_VARIANT], 1, msg,
                      [dm |-> dm, log |-> <<>>, out |-> <<>>])

\* MspCommandDispatcher::dispatchMessage
DispatchMessage(execs, msg, dm) ==
    IF msg.cmd \in DOMAIN execs
    THEN RunExecutors(execs[msg.cmd], 1, msg, [dm |-> dm, log |-> <<>>, out |-> <<>>])
    ELSE [dm |-> dm, log |-> <<>>, out |-> <<>>]

\* the message staged and the executors' effects left for later
OnMspMessageDeferred(execs, msg, hm, fm) ==
    LET d == DispatchMessage(execs, msg, fm)
    IN [hm |-> CopyToFrameBuffer(hm, SizeofMspMessage),
        fm |-> fm, log |-> d.log, out |-> <<>>]

\* MspMessageHandler::onMspMessage: the message is staged in the handler's own
\* m_dataModel, then dispatched against the data model the dispatcher refers to
OnMspMessage(execs, msg, hm, fm) ==
    LET d == DispatchMessage(execs, msg, fm)
    IN [hm |-> CopyToFrameBuffer(hm, SizeofMspMessage),
        fm |-> d.dm, log |-> d.log, out |-> d.out]

(***************************************************************************)
(* Input: what the byte source hands to main's read loop.  A chunk is a    *)
(* sequence of the values a sender writes; receiveData stores them in a    *)
(* uint8_t buffer.                                                         *)
(***************************************************************************)
MaxGarbage == 2        \* longest run of stray bytes in front of a frame
MaxShortLen == 2       \* short frames declare 0 .. MaxShortLen payload bytes

Patterns == {"zero", "ones", "nested"}

\* the j-th payload byte (j from 0) of a payload pattern; "nested" is the
\* frame $ M < 0 7 7 followed by zeros
PatByte(pat, j) ==
    CASE pat = "zero" -> 0
      [] pat = "ones" -> 1
      [] pat = "nested" ->
            IF j < 6 THEN <<CH_DOLLAR, CH_M, CH_LT, 0, 7, 7>>[j + 1] ELSE 0

PatPayload(pat, len) == [j \in 1 .. len |-> PatByte(pat, j - 1)]

\* s[lo] xor ... xor s[hi], by halving
RECURSIVE XorRange(_, _, _)
XorRange(s, lo, hi) ==
    IF lo > hi THEN 0
    ELSE IF lo = hi THEN s[lo]
    ELSE LET mid == (lo + hi) \div 2
         IN Xor(XorRange(s, lo, mid), XorRange(s, mid + 1, hi))

XorAll(s) == XorRange(s, 1, Len(s))

\* the wire format of section 6: $ M dir LEN CMD payload CHECKSUM
MkFrame(dir, len, cmd, pat) ==
    LET body == <<len, cmd>> \o PatPayload(pat, len)
    IN <<CH_DOLLAR, CH_M, dir>> \o body \o <<XorAll(body)>>

Dirs == {CH_LT, CH_GT}

\* command bytes of the short frames: an unrecognised one and FC_VARIANT
ShortCmds == {7, CMD_FC_VARIANT}

ShortFrames ==
    {MkFrame(d, l, c, p) : d \in Dirs, l \in 0 .. MaxShortLen,
                           c \in ShortCmds, p \in {"zero", "ones"}}

\* the longest frame a length byte can declare, and a frame whose payload
\* holds a whole frame
LongFrames ==
    {MkFrame(CH_GT, Pow8 - 1, 7, "ones"), MkFrame(CH_LT, 6, 7, "nested")}

Frames == ShortFrames \cup LongFrames

GarbageBytes == {CH_DOLLAR, CH_M, 0}

Garbage == UNION {[1 .. n -> GarbageBytes] : n \in 0 .. MaxGarbage}

\* frame f with bit `bit` of its pos-th byte inverted
FlipBit(f, pos, bit) ==
    [f EXCEPT ![pos] = Xor(f[pos], Pow2(bit))]

LenPos == 4       \* the position of LEN in a frame, counted from 1

FlipFrames ==
    {MkFrame(CH_LT, 0, CMD_FC_VARIANT, "zero"), MkFrame(CH_GT, 1, 7, "ones")}

\* every single-bit corruption of a frame outside its length byte, and the
\* corruptions of the header of the frame that holds a frame
Flipped ==
    UNION {{FlipBit(f, pos, bit) : pos \in (DOMAIN f) \ {LenPos}, bit \in 0 .. 7} :
           f \in FlipFrames}
    \cup {FlipBit(MkFrame(CH_LT, 6, 7, "nested"), pos, bit) :
            pos \in 1 .. (LenPos - 1), bit \in 0 .. 7}

\* a header whose length field is meant to declare more than a byte holds
Oversize ==
    {<<CH_DOLLAR, CH_M, CH_LT, v>> :
        v \in {MSP_MAX_PAYLOAD_SIZE, MSP_MAX_PAYLOAD_SIZE + 1}}

\* the frames that are also fed with stray bytes in front of them
PrefixedFrames ==
    {MkFrame(CH_LT, 0, CMD_FC_VARIANT, "zero"), MkFrame(CH_GT, 1, 7, "ones")}

\* a short frame behind a longer frame, delivered or dropped for its checksum
ShortAfterLong ==
    {MkFrame(CH_GT, 2, 7, "ones") \o MkFrame(CH_LT, 1, 7, "nested"),
     FlipBit(MkFrame(CH_GT, 2, 7, "ones"), 8, 0) \o MkFrame(CH_LT, 0, CMD_FC_VARIANT, "zero")}

Chunks ==
    Frames \cup {g \o f : g \in Garbage, f \in PrefixedFrames}
        \cup (Garbage \ {<<>>}) \cup Flipped \cup Oversize \cup ShortAfterLong

OutPorts == {0, 9999}

(***************************************************************************)
(* The program: main() wires the objects, registers the RC executors and   *)
(* runs the read loop.                                                     *)
(***************************************************************************)
\* the registerExecutor calls of MspCommandDispatcher's constructor
InitRegistered ==
    << [cmd |-> CMD_STATUS, kind |-> "Status"],
       [cmd |-> CMD_ATTITUDE, kind |-> "Attitude"],
       [cmd |-> CMD_FC_VARIANT, kind |-> "FcVariant"] >>

\* flightModel, messageHandler (with its dispatcher) and parser as constructed
InitObjects ==
    /\ m_state = "IDLE"
    /\ m_msg = ResetMsg
    /\ m_bufPtr = 0
    /\ flightModel = InitFlightDataModel
    /\ handlerModel = InitFlightDataModel
    /\ m_executors = InitExecutors
    /\ registered = InitRegistered
    /\ buffer = <<>>
    /\ i = 0
    /\ wire = <<>>
    /\ rx = <<>>
    /\ startState = "IDLE"
    /\ emitted = <<>>
    /\ execLog = <<>>
    /\ sent = <<>>
    /\ bytesRead = 0
    /\ failed = FALSE
    /\ fed = <<>>

\* an ifstream that was never opened
NoFile == [content |-> <<>>, pos |-> 0, good |-> FALSE]

\* createInputSource("udp", port)
UdpSource ==
    /\ inputType = "udp"
    /\ m_file = NoFile

Init ==
    /\ pc = "reg_console"
    /\ outPort \in OutPorts
    /\ UdpSource
    /\ InitObjects

parserVars == <<m_state, m_msg, m_bufPtr, rx>>
modelVars == <<flightModel, handlerModel>>
inputVars == <<buffer, i, wire, startState, inputType, m_file, bytesRead, failed, fed>>
historyVars == <<emitted, execLog, sent>>

\* MspCommandDispatcher::registerExecutor
RegisterExecutor(cmd, kind) ==
    /\ m_executors' = RegisterInto(m_executors, cmd, kind)
    /\ registered' = Append(registered, [cmd |-> cmd, kind |-> kind])
    /\ UNCHANGED <<outPort, parserVars, modelVars, inputVars, historyVars>>

\* main, step 4a
MainRegisterConsole ==
    /\ pc = "reg_console"
    /\ RegisterExecutor(CMD_RC, "RcConsole")
    /\ pc' = "reg_alink"

\* main, step 4b
MainRegisterAlink ==
    /\ pc = "reg_alink"
    /\ IF outPort > 0
       THEN RegisterExecutor(CMD_RC, "RcAlink")
       ELSE UNCHANGED <<m_executors, registered, outPort, parserVars, modelVars,
                        inputVars, historyVars>>
    /\ pc' = "loop"

\* main's test for leaving the loop, once bytesRead > 0 is false
LoopExit(ret) == ret = -1 /\ inputType = "file"

\* one turn of main's while loop up to its for loop: receiveData returned
\* ret, wrote data into buffer and left the file stream as file
LoopTurn(ret, data, file) ==
    /\ pc = "loop"
    /\ i = Len(buffer)
    /\ bytesRead' = ret
    /\ m_file' = file
    /\ failed' = (failed \/ ret < 0)
    /\ buffer' = IF ret > 0 THEN [k \in 1 .. ret |-> ToUint8(data[k])] ELSE <<>>
    /\ i' = 0
    /\ wire' = data
    /\ startState' = m_state
    /\ emitted' = <<>>
    /\ execLog' = <<>>
    /\ sent' = <<>>
    /\ pc' = IF ret > 0 THEN "loop"
             ELSE IF LoopExit(ret) THEN "done"
             ELSE "loop"
    /\ UNCHANGED <<outPort, parserVars, modelVars, m_executors, registered,
                   inputType, fed>>

\* main's loop: UdpInputSource::receiveData returned the datagram chunk
ReceiveData(chunk) == inputType = "udp" /\ LoopTurn(Len(chunk), chunk, m_file)

\* main's inner loop: parser.processByte(buffer[i]), with everything the call
\* does before it returns
ProcessByte ==
    /\ pc = "loop"
    /\ i < Len(buffer)
    /\ LET byte == buffer[i + 1]
           p == ParserStep(m_state, m_msg, m_bufPtr, byte)
           h == OnMspMessage(m_executors, m_msg, handlerModel, flightModel)
       IN /\ m_state' = p.state
          /\ m_msg' = p.msg
          /\ m_bufPtr' = p.bufPtr
          /\ rx' = IF p.state = "IDLE" THEN <<>> ELSE Append(rx, byte)
          /\ IF p.deliver
             THEN /\ handlerModel' = h.hm
                  /\ flightModel' = h.fm
                  /\ execLog' = h.log
                  /\ sent' = sent \o h.out
                  /\ emitted' = Append(emitted,
                        [msg |-> m_msg, at |-> i + 1, bytes |-> Append(rx, byte)])
             ELSE UNCHANGED <<modelVars, historyVars>>
          /\ fed' = IF inputType = "file" THEN Append(fed, byte) ELSE fed
    /\ i' = i + 1
    /\ UNCHANGED <<pc, outPort, m_executors, registered, buffer, wire, startState,
                   inputType, m_file, bytesRead, failed>>

Next ==
    \/ MainRegisterConsole
    \/ MainRegisterAlink
    \/ \E chunk \in Chunks : ReceiveData(chunk)
    \/ ProcessByte

Spec == Init /\ [][Next]_vars

(***************************************************************************)
(* The dispatcher used through getDispatcher(): executors are registered   *)
(* at will, between buffers, while frames are fed.                         *)
(***************************************************************************)
MaxRegistrations == 2  \* registerExecutor calls after the constructor's

RegCmds == {CMD_FC_VARIANT, CMD_UNKNOWN, 7}

RegKinds == {"Status", "FcVariant"}

RegFrames ==
    {MkFrame(CH_LT, 0, CMD_FC_VARIANT, "zero"),
     MkFrame(CH_LT, 7, CMD_FC_VARIANT, "ones"),
     MkFrame(CH_GT, 7, 7, "ones"),
     MkFrame(CH_LT, 0, 9, "zero"),
     MkFrame(CH_LT, 1, CMD_RC, "ones")}

InitReg ==
    /\ pc = "loop"
    /\ outPort = 0
    /\ UdpSource
    /\ InitObjects

ApiRegister(cmd, kind) ==
    /\ pc = "loop"
    /\ i = Len(buffer)
    /\ Len(registered) < Len(InitRegistered) + MaxRegistrations
    /\ RegisterExecutor(cmd, kind)
    /\ pc' = pc

NextReg ==
    \/ \E cmd \in RegCmds, kind \in RegKinds : ApiRegister(cmd, kind)
    \/ \E chunk \in RegFrames : ReceiveData(chunk)
    \/ ProcessByte

SpecReg == InitReg /\ [][NextReg]_vars

(***************************************************************************)
(* The program fed with the frames its executors decode: STATUS, ATTITUDE, *)
(* FC_VARIANT and RC frames whose payloads are shorter than, as long as    *)
(* and longer than what each executor asks for.                            *)
(***************************************************************************)
Zeros(n) == [j \in 1 .. n |-> 0]

Ramp(n) == [j \in 1 .. n |-> j]

AllOnes(n) == [j \in 1 .. n |-> Pow8 - 1]

\* the wire format of section 6 around a given payload
MkFrameOf(dir, cmd, payload) ==
    LET body == <<Len(payload), cmd>> \o payload
    IN <<CH_DOLLAR, CH_M, dir>> \o body \o <<XorAll(body)>>

StatusPayloads ==
    {<<>>, <<1, 1, 1, 1, 1, 1>>, Zeros(6) \o <<1>>, Zeros(6) \o <<2>>,
     Zeros(6) \o <<3>>, <<1, 1, 1, 1, 1, 1, 0>>, Zeros(7) \o <<1>>}

\* 258, -1 and -32768 as little-endian 16-bit values, in three orders
AttitudePayloads ==
    {<<>>, <<2, 1, 255, 255, 0>>, <<2, 1, 255, 255, 0, 128>>,
     <<255, 255, 0, 128, 2, 1, 9>>, <<0, 128, 2, 1, 255, 255>>}

\* "BTF", "BTFL" and a byte, "INAV", and two identifiers that hold a NUL
FcVariantPayloads ==
    {<<66, 84, 70>>, <<66, 84, 70, 76, 1>>, <<73, 78, 65, 86>>,
     <<66, 0, 70, 76>>, <<66, 0, 88, 89>>}

RcPayloads == {<<>>, Ramp(31), Ramp(32), Ramp(36), AllOnes(33)}

StatusFrames == {MkFrameOf(CH_LT, CMD_STATUS, p) : p \in StatusPayloads}

AttitudeFrames == {MkFrameOf(CH_GT, CMD_ATTITUDE, p) : p \in AttitudePayloads}

FcVariantFrames == {MkFrameOf(CH_GT, CMD_FC_VARIANT, p) : p \in FcVariantPayloads}

RcFrames == {MkFrameOf(CH_GT, CMD_RC, p) : p \in RcPayloads}

\* the bytes 24 4D 3C 07 69 00 00 00 00 00 00 01 and their checksum
ExampleFrame ==
    LET body == <<7, 105, 0, 0, 0, 0, 0, 0, 1>>
    IN <<36, 77, 60>> \o body \o <<XorAll(body)>>

\* buffers that hold several frames back to back
FrameRuns ==
    {MkFrameOf(CH_LT, CMD_STATUS, Zeros(6) \o <<1>>)
        \o MkFrameOf(CH_GT, CMD_ATTITUDE, <<2, 1, 255, 255, 0, 128>>),
     MkFrameOf(CH_GT, CMD_FC_VARIANT, <<73, 78, 65, 86>>)
        \o MkFrameOf(CH_LT, CMD_STATUS, Zeros(6) \o <<1>>)
        \o MkFrameOf(CH_GT, CMD_FC_VARIANT, <<66, 84, 70, 76, 1>>)}

CmdChunks ==
    StatusFrames \cup AttitudeFrames \cup FcVariantFrames \cup RcFrames
        \cup FrameRuns \cup {ExampleFrame}

NextCmd ==
    \/ MainRegisterConsole
    \/ MainRegisterAlink
    \/ \E chunk \in CmdChunks : ReceiveData(chunk)
    \/ ProcessByte

SpecCmd == Init /\ [][NextCmd]_vars

(***************************************************************************)
(* The read loop with its two input sources: a UDP socket, whose recvfrom  *)
(* hands over a datagram, a datagram of length 0 or an error, and a file,  *)
(* read BUFFER_SIZE bytes at a time.                                       *)
(***************************************************************************)
BUFFER_SIZE == 1024

\* the stream never reporting its end
FileReceiveDataNoEnd(f, bufferSize) ==
    LET avail == Len(f.content) - f.pos
        n == IF avail < bufferSize THEN avail ELSE bufferSize
    IN [ret |-> n,
        data |-> SubSeq(f.content, f.pos + 1, f.pos + n),
        file |-> [f EXCEPT !.pos = f.pos + n, !.good = (n = bufferSize)]]

\* FileInputSource::receiveData: the value returned, the bytes written and
\* the stream afterwards; read() clears good() when it meets the end of the
\* file before bufferSize bytes
FileReceiveData(f, bufferSize) ==
    IF ~f.good
    THEN [ret |-> -1, data |-> <<>>, file |-> f]
    ELSE LET avail == Len(f.content) - f.pos
             n == IF avail < bufferSize THEN avail ELSE bufferSize
         IN [ret |-> n,
             data |-> SubSeq(f.content, f.pos + 1, f.pos + n),
             file |-> [f EXCEPT !.pos = f.pos + n, !.good = (n = bufferSize)]]

ArmFrame == MkFrameOf(CH_LT, CMD_STATUS, Zeros(6) \o <<1>>)

\* file contents: nothing, one frame, a frame that ends with the first
\* buffer, and a frame that the first buffer cuts in two
Files ==
    {<<>>, ArmFrame,
     Zeros(BUFFER_SIZE - Len(ArmFrame)) \o ArmFrame,
     Zeros(BUFFER_SIZE + 4 - Len(ArmFrame)) \o ArmFrame}

\* createInputSource("file", path) on a file that opens
FileSource ==
    /\ inputType = "file"
    /\ \E content \in Files : m_file = [content |-> content, pos |-> 0, good |-> TRUE]

LoopChunks == {ArmFrame, MkFrameOf(CH_GT, CMD_ATTITUDE, <<2, 1, 255, 255, 0, 128>>)}

InitLoop ==
    /\ pc = "reg_console"
    /\ outPort \in OutPorts
    /\ (UdpSource \/ FileSource)
    /\ InitObjects

\* recvfrom returned 0 (an empty datagram) or -1 (an error)
UdpReceiveNothing(ret) == inputType = "udp" /\ LoopTurn(ret, <<>>, m_file)

\* main's loop: FileInputSource::receiveData
FileReceive ==
    /\ inputType = "file"
    /\ LET r == FileReceiveData(m_file, BUFFER_SIZE)
       IN LoopTurn(r.ret, r.data, r.file)

NextLoop ==
    \/ MainRegisterConsole
    \/ MainRegisterAlink
    \/ \E chunk \in LoopChunks : ReceiveData(chunk)
    \/ \E ret \in {0, -1} : UdpReceiveNothing(ret)
    \/ FileReceive
    \/ ProcessByte

SpecLoop == InitLoop /\ [][NextLoop]_vars

\* the program keeps running: a step of main that can be taken is taken
SpecLoopFair == SpecLoop /\ WF_vars(NextLoop)

(***************************************************************************)
(* The parser fed, from a file, with every byte value where it can         *)
(* deviate: after '$', after '$' 'M', and as the checksum byte of a frame. *)
(***************************************************************************)
Bytes == 0 .. (Pow8 - 1)

ByteFiles ==
    {<<CH_DOLLAR, b>> : b \in Bytes}
        \cup {<<CH_DOLLAR, b, CH_M, CH_LT, 0, 7, 7>> : b \in Bytes}
        \cup {<<CH_DOLLAR, CH_M, b>> : b \in Bytes}
        \cup {<<CH_DOLLAR, CH_M, d, 0, 7, b>> : d \in Dirs, b \in Bytes}
        \cup {<<CH_DOLLAR, CH_M, CH_LT, 1, CMD_FC_VARIANT, 1, b>> : b \in Bytes}

InitBytes ==
    /\ pc = "loop"
    /\ outPort = 0
    /\ inputType = "file"
    /\ \E content \in ByteFiles :
          m_file = [content |-> content, pos |-> 0, good |-> TRUE]
    /\ InitObjects

NextBytes ==
    \/ FileReceive
    \/ ProcessByte

SpecBytes == InitBytes /\ [][NextBytes]_vars

(***************************************************************************)
(* The wire format, stated on byte sequences independently of the parser.  *)
(***************************************************************************)
\* s holds a complete well-formed frame that starts at position k
FrameAt(s, k) ==
    /\ k + 5 <= Len(s)
    /\ s[k] = CH_DOLLAR
    /\ s[k + 1] = CH_M
    /\ s[k + 2] \in Dirs
    /\ k + 5 + s[k + 3] <= Len(s)
    /\ s[k + 5 + s[k + 3]] = XorRange(s, k + 3, k + 4 + s[k + 3])

FrameEnd(s, k) == k + 5 + s[k + 3]

FrameStarts(s) == {k \in 1 .. Len(s) : FrameAt(s, k)}

\* s is exactly one well-formed frame
WellFormed(s) == FrameAt(s, 1) /\ FrameEnd(s, 1) = Len(s)

\* the current buffer was received with the parser in IDLE and is consumed
ChunkDoneFromIdle == pc = "loop" /\ startState = "IDLE" /\ i = Len(buffer)

DirectionOf(byte) == IF byte = CH_LT THEN "OUTBOUND" ELSE "INBOUND"

(***************************************************************************)
(* C1.  Resynchronisation: stray bytes that hold no frame, followed by one *)
(* well-formed frame, fed from IDLE, yield exactly one delivered frame.    *)
(* The parser does not do this: see C1_Resync's trace.                     *)
(***************************************************************************)
C1_Resync ==
    (/\ ChunkDoneFromIdle
     /\ \E k \in 1 .. Len(buffer) :
            /\ FrameStarts(buffer) = {k}
            /\ FrameEnd(buffer, k) = Len(buffer))
    => Len(emitted) = 1

(***************************************************************************)
(* C2.  Checksum gate: every message handed to onMspMessage was received   *)
(* as $ M dir LEN CMD payload CHECKSUM with CHECKSUM = LEN xor CMD xor the *)
(* payload bytes, and carries that LEN and payload; a checksum byte that   *)
(* differs delivers nothing and changes neither data model.                *)
(***************************************************************************)
DeliveredChecksumOk(e) ==
    LET b == e.bytes
    IN /\ Len(b) >= 6
       /\ Len(b) = b[4] + 6
       /\ b[Len(b)] = XorRange(b, 4, Len(b) - 1)
       /\ e.msg.size = b[4]
       /\ \A j \in 1 .. b[4] : e.msg.payload[j - 1] = b[5 + j]

BadChecksumStep ==
    /\ m_state = "CHECKSUM"
    /\ i < Len(buffer)
    /\ buffer[i + 1] # XorRange(rx, 4, Len(rx))

C2_ChecksumGate ==
    /\ [](\A k \in 1 .. Len(emitted) : DeliveredChecksumOk(emitted[k]))
    /\ [][BadChecksumStep =>
            /\ emitted' = emitted
            /\ flightModel' = flightModel
            /\ handlerModel' = handlerModel
            /\ sent' = sent]_vars

C2_Witness ==
    /\ Len(emitted) = 1
    /\ emitted[1].msg.size = 2
    /\ emitted[1].msg.payload[1] = 1
    /\ handlerModel.fbCursor = SizeofMspMessage

(***************************************************************************)
(* C3.  Wire-format acceptance: a well-formed frame fed from IDLE delivers *)
(* nothing before its checksum byte and exactly one message on it, with    *)
(* direction OUTBOUND for '<' and INBOUND for '>', size LEN and the        *)
(* payload bytes in the order fed; the parser is in IDLE afterwards.       *)
(***************************************************************************)
C3_WireFormat ==
    (pc = "loop" /\ startState = "IDLE" /\ WellFormed(buffer)) =>
        /\ i < Len(buffer) => emitted = <<>>
        /\ i = Len(buffer) =>
              /\ Len(emitted) = 1
              /\ emitted[1].at = Len(buffer)
              /\ emitted[1].msg.direction = DirectionOf(buffer[3])
              /\ emitted[1].msg.size = buffer[4]
              /\ \A j \in 1 .. buffer[4] :
                    emitted[1].msg.payload[j - 1] = buffer[5 + j]
              /\ m_state = "IDLE"

C3_Witness ==
    /\ ChunkDoneFromIdle
    /\ WellFormed(buffer)
    /\ buffer[3] = CH_GT
    /\ buffer[4] = 2
    /\ Len(emitted) = 1
    /\ emitted[1].msg.direction = "INBOUND"

(***************************************************************************)
(* C4.  Single-bit corruption.  As claimed (C4_Original): a well-formed    *)
(* frame with one bit inverted outside its length byte, fed from IDLE,     *)
(* delivers nothing.  As amended (C4_Amended): it delivers nothing when    *)
(* the bit is in the command, payload or checksum byte, and whenever the   *)
(* corrupted bytes hold no well-formed frame; bit 1 of the direction byte  *)
(* turns '<' into '>' (and back) and the frame is delivered once with the  *)
(* other direction.                                                        *)
(***************************************************************************)
\* the buffer is a well-formed frame with bit `bit` of byte `pos` inverted
CorruptedAt(pos, bit) ==
    /\ pos \in (DOMAIN buffer) \ {LenPos}
    /\ WellFormed(FlipBit(buffer, pos, bit))

C4_Original ==
    (ChunkDoneFromIdle /\ \E pos \in DOMAIN buffer, bit \in 0 .. 7 : CorruptedAt(pos, bit))
    => emitted = <<>>

C4_Amended ==
    \A pos \in DOMAIN buffer, bit \in 0 .. 7 :
        (ChunkDoneFromIdle /\ CorruptedAt(pos, bit)) =>
            /\ pos > LenPos => emitted = <<>>
            /\ FrameStarts(buffer) = {} => emitted = <<>>
            /\ (pos = LenPos - 1 /\ bit = 1) =>
                  /\ Len(emitted) = 1
                  /\ emitted[1].msg.direction = DirectionOf(buffer[LenPos - 1])
                  /\ emitted[1].msg.direction
                        # DirectionOf(FlipBit(buffer, pos, bit)[LenPos - 1])

\* a corrupted payload byte, the frame consumed and dropped
C4_Witness ==
    /\ ChunkDoneFromIdle
    /\ CorruptedAt(LenPos + 2, 0)
    /\ buffer[LenPos] = 1
    /\ emitted = <<>>
    /\ m_state = "IDLE"

\* a corrupted direction byte, the frame delivered with the other direction
C4_DirectionFlipDelivered ==
    /\ ChunkDoneFromIdle
    /\ CorruptedAt(LenPos - 1, 1)
    /\ Len(emitted) = 1

(***************************************************************************)
(* Dispatch, stated on the history of registerExecutor calls.              *)
(***************************************************************************)
\* the executors registered for cmd, in the order of the calls
RegisteredFor(cmd) == SelectSeq(registered, LAMBDA r : r.cmd = cmd)

\* this step hands a message to onMspMessage
Delivers == Len(emitted') = Len(emitted) + 1

Delivered == emitted'[Len(emitted')]

KnownCmdBytes == {CMD_STATUS, CMD_FC_VARIANT, CMD_RC, CMD_ATTITUDE}

(***************************************************************************)
(* C5.  Dispatch order: a delivered message runs every executor registered *)
(* for its command exactly once, in registration order; the first is       *)
(* handed the data model as it was before the dispatch, each later one the *)
(* data model its predecessor left, and the last one's result is the data  *)
(* model after the dispatch.                                               *)
(***************************************************************************)
C5_DispatchOrder ==
    [][Delivers =>
        LET msg == Delivered.msg
            want == RegisteredFor(msg.cmd)
            n == Len(want)
        IN /\ Len(execLog') = n
           /\ \A k \in 1 .. n :
                 /\ execLog'[k].exec = want[k].kind
                 /\ execLog'[k].saw =
                       IF k = 1 THEN flightModel
                       ELSE Execute(want[k - 1].kind, msg, execLog'[k - 1].saw).dm
           /\ flightModel' =
                 IF n = 0 THEN flightModel
                 ELSE Execute(want[n].kind, msg, execLog'[n].saw).dm]_vars

C5_Witness ==
    /\ Len(execLog) = 2
    /\ execLog[1].exec = "FcVariant"
    /\ execLog[1].saw.fcIdentifier[0] = 0
    /\ execLog[2].exec = "Status"
    /\ execLog[2].saw.fcIdentifier[0] = 1
    /\ ~execLog[2].saw.armed
    /\ flightModel.armed

(***************************************************************************)
(* C6.  Registration is append-only: registerExecutor(cmd, e) leaves the   *)
(* list of cmd as it was with e added at its end and every other list as   *)
(* it was; no other step changes a list.                                   *)
(***************************************************************************)
OldList(cmd) == IF cmd \in DOMAIN m_executors THEN m_executors[cmd] ELSE <<>>

C6_AppendOnly ==
    [][/\ registered' # registered =>
            LET r == registered'[Len(registered')]
            IN /\ registered' = Append(registered, r)
               /\ DOMAIN m_executors' = (DOMAIN m_executors) \cup {r.cmd}
               /\ m_executors'[r.cmd] = OldList(r.cmd) \o <<r.kind>>
               /\ \A c \in (DOMAIN m_executors) \ {r.cmd} :
                     m_executors'[c] = m_executors[c]
       /\ registered' = registered => m_executors' = m_executors]_vars

C6_Witness ==
    /\ m_executors[CMD_FC_VARIANT] = <<"FcVariant", "Status">>
    /\ CMD_UNKNOWN \in DOMAIN m_executors
    /\ m_executors[CMD_UNKNOWN] = <<"FcVariant">>
    /\ m_executors[CMD_STATUS] = <<"Status">>

(***************************************************************************)
(* C7.  A delivered message whose command has no registered executor.  As  *)
(* claimed (C7_Original): no executor runs and no field of the data model, *)
(* the staging cursor included, changes.  As amended (C7_Amended): no      *)
(* executor runs, nothing is sent and main's data model is unchanged in    *)
(* every field, while onMspMessage still stages the message: the cursor of *)
(* the handler's own data model moves on by sizeof(MspMessage), from 0     *)
(* when the record would not fit.                                          *)
(***************************************************************************)
NoExecutorDelivery == Delivers /\ RegisteredFor(Delivered.msg.cmd) = <<>>

CmdByteOf(e) == e.bytes[LenPos + 1]

IsZeroLenFcVariant(b) ==
    /\ Len(b) = 6
    /\ WellFormed(b)
    /\ b[LenPos] = 0
    /\ b[LenPos + 1] = CMD_FC_VARIANT
    /\ b[LenPos + 2] = CMD_FC_VARIANT

C9_ZeroLength ==
    /\ []((ChunkDoneFromIdle /\ IsZeroLenFcVariant(buffer)) =>
            /\ Len(emitted) = 1
            /\ emitted[1].msg.size = 0
            /\ emitted[1].msg.cmd = CMD_FC_VARIANT
            /\ emitted[1].msg.payload = ZeroPayload)
    /\ [][(m_state = "CMD" /\ m_msg.size = 0 /\ i' = i + 1) =>
            /\ m_state' = "CHECKSUM"
            /\ m_msg'.payload = m_msg.payload
            /\ m_bufPtr' = 0]_vars
    /\ [][(Delivers /\ IsZeroLenFcVariant(Delivered.bytes)) =>
            /\ Len(execLog') = Len(RegisteredFor(CMD_FC_VARIANT))
            /\ \A k \in 1 .. Len(execLog') :
                  execLog'[k].exec = RegisteredFor(CMD_FC_VARIANT)[k].kind
            /\ flightModel' = flightModel]_vars

\* the zero-length frame delivered to two executors, with an identifier and
\* the armed flag set before it that it leaves alone
C9_Witness ==
    /\ ChunkDoneFromIdle
    /\ IsZeroLenFcVariant(buffer)
    /\ Len(emitted) = 1
    /\ Len(execLog) = 2
    /\ flightModel.fcIdentifier[0] = 1
    /\ flightModel.armed

(***************************************************************************)
(* C10.  Length bound.  As claimed (C10_Original): a length declared above *)
(* the payload capacity resets the parser to IDLE in the length state.  As *)
(* amended (C10_Amended): the length is one byte, so every length the      *)
(* parser sees is 0 .. 255 and below the capacity; the length state never  *)
(* resets and always goes on to CMD; a value of 256 or 257 written by the  *)
(* sender arrives as the byte 0 or 1 and is taken as that length; the      *)
(* frame declaring 255, the largest length there is, is delivered with its *)
(* 255 payload bytes.                                                      *)
(***************************************************************************)
\* the buffer starts with a frame header, was received in IDLE, and its
\* length byte has just been consumed
LengthJustConsumed ==
    /\ pc = "loop"
    /\ startState = "IDLE"
    /\ Len(buffer) >= LenPos
    /\ buffer[1] = CH_DOLLAR
    /\ buffer[2] = CH_M
    /\ buffer[3] \in Dirs
    /\ i = LenPos

C10_NarrowedLength ==
    /\ LengthJustConsumed
    /\ wire[LenPos] = MSP_MAX_PAYLOAD_SIZE + 1
    /\ m_state = "CMD"
    /\ m_msg.size = 1

(***************************************************************************)
(* The executors' effects, stated on the bytes of the delivered frame.     *)
(***************************************************************************)
\* data models a and b agree on every field outside F
SameOutside(a, b, F) == \A f \in (DOMAIN a) \ F : a[f] = b[f]

\* the j-th payload byte (j from 0) of the frame this step delivers
PayloadByte(j) == Delivered.bytes[LenPos + 2 + j]

DeliversCmd(cmd) == Delivers /\ Delivered.bytes[LenPos + 1] = cmd

\* the executors this step ran are all registered for cmd, none for another
RanOnlyFor(cmd) ==
    \A k \in 1 .. Len(execLog') :
        \A r \in {registered[n] : n \in 1 .. Len(registered)} :
            r.kind = execLog'[k].exec => r.cmd = cmd

(***************************************************************************)
(* C11.  STATUS end to end.  As claimed (C11_Original): a valid frame with *)
(* CMD=101 and LEN > 6 sets armed to bit 0 of payload[6], changes no other *)
(* field and runs no executor of another command, and the frame            *)
(* 24 4D 3C 07 69 00 00 00 00 00 00 01 + checksum leaves armed true.  As   *)
(* amended (C11_Amended): the same for CMD=101, which is the byte 0x65;    *)
(* the example frame carries 0x69, which is 105 (RC): it runs the RC       *)
(* executors only, and with LEN 7 they leave the data model, armed         *)
(* included, as it was.                                                    *)
(***************************************************************************)
StatusEffect ==
    (DeliversCmd(CMD_STATUS) /\ Delivered.bytes[LenPos] > 6) =>
        /\ flightModel'.armed = (PayloadByte(6) % 2 = 1)
        /\ SameOutside(flightModel', flightModel, {"armed"})
        /\ RanOnlyFor(CMD_STATUS)
        /\ sent' = sent

C11_Original ==
    [][/\ StatusEffect
       /\ (Delivers /\ Delivered.bytes = ExampleFrame) => flightModel'.armed]_vars

C11_Amended ==
    [][/\ StatusEffect
       /\ (Delivers /\ Delivered.bytes = [ExampleFrame EXCEPT ![LenPos + 1] = 101,
                                             ![Len(ExampleFrame)] = 99]) =>
              flightModel'.armed
       /\ (Delivers /\ Delivered.bytes = ExampleFrame) =>
              /\ Delivered.msg.cmd = CMD_RC
              /\ RanOnlyFor(CMD_RC)
              /\ flightModel' = flightModel]_vars

\* a STATUS frame armed a data model whose other fields hold values
C11_Witness ==
    /\ Len(emitted) = 1
    /\ emitted[1].msg.cmd = CMD_STATUS
    /\ emitted[1].bytes = MkFrameOf(CH_LT, 101, Zeros(6) \o <<3>>)
    /\ execLog = << [exec |-> "Status", saw |-> [flightModel EXCEPT !.armed = FALSE]] >>
    /\ flightModel.armed
    /\ flightModel.roll = 258
    /\ flightModel.fcIdentifier[0] = 73
    /\ flightModel.channels[15] = 31 + (Pow8 * 32)

\* the example frame was delivered and armed stayed false
C11_ExampleLeavesDisarmed ==
    /\ Len(emitted) = 1
    /\ emitted[1].bytes = ExampleFrame
    /\ ~flightModel.armed

(***************************************************************************)
(* C12.  Short payloads are no-ops: a valid STATUS frame with LEN <= 6,    *)
(* ATTITUDE frame with LEN < 6, FC_VARIANT frame with LEN < 4 or RC frame  *)
(* with LEN < 32 (LEN = 0 included) is handed to its executors, which      *)
(* leave every field of the data model as it was and send nothing, and the *)
(* parser is back in IDLE with a cleared message.                          *)
(***************************************************************************)
\* LEN is below what the executors of cmd ask for
TooShortFor(cmd, len) ==
    CASE cmd = CMD_STATUS -> len <= 6
      [] cmd = CMD_ATTITUDE -> len < 6
      [] cmd = CMD_FC_VARIANT -> len < 4
      [] cmd = CMD_RC -> len < 32
      [] OTHER -> FALSE

C12_ShortNoOp ==
    [][(Delivers /\ TooShortFor(Delivered.bytes[LenPos + 1], Delivered.bytes[LenPos])) =>
          /\ Len(execLog') >= 1
          /\ RanOnlyFor(Delivered.bytes[LenPos + 1])
          /\ flightModel' = flightModel
          /\ sent' = sent
          /\ m_state' = "IDLE"
          /\ m_msg' = ResetMsg
          /\ m_bufPtr' = 0]_vars

\* an RC frame of 31 payload bytes went through both RC executors and left
\* the armed flag, the attitude and the channels that earlier frames set
C12_Witness ==
    /\ Len(emitted) = 1
    /\ emitted[1].msg.cmd = CMD_RC
    /\ emitted[1].msg.size = 31
    /\ Len(execLog) = 2
    /\ execLog[2].exec = "RcAlink"
    /\ sent = <<>>
    /\ flightModel.armed
    /\ flightModel.pitch = -1
    /\ flightModel.channels[0] = Pow16 - 1
    /\ m_state = "IDLE"

(***************************************************************************)
(* C13.  ATTITUDE: a valid frame with CMD=108 and LEN >= 6 sets roll,      *)
(* pitch and heading to the signed 16-bit values whose low byte is at      *)
(* payload offset 0, 2, 4 and high byte at offset 1, 3, 5, and changes no  *)
(* other field of the data model.                                          *)
(***************************************************************************)
\* v is the signed 16-bit value of the byte pair lo, hi (lo first)
IsSigned16(v, lo, hi) ==
    /\ v \in -32768 .. 32767
    /\ (v - (lo + (256 * hi))) % 65536 = 0

C13_Attitude ==
    [][(DeliversCmd(CMD_ATTITUDE) /\ Delivered.bytes[LenPos] >= 6) =>
          /\ IsSigned16(flightModel'.roll, PayloadByte(0), PayloadByte(1))
          /\ IsSigned16(flightModel'.pitch, PayloadByte(2), PayloadByte(3))
          /\ IsSigned16(flightModel'.heading, PayloadByte(4), PayloadByte(5))
          /\ SameOutside(flightModel', flightModel, {"roll", "pitch", "heading"})
          /\ RanOnlyFor(CMD_ATTITUDE)
          /\ sent' = sent]_vars

\* FF FF 00 80 02 01 09 was decoded over an armed data model with channels set
C13_Witness ==
    /\ Len(emitted) = 1
    /\ emitted[1].msg.cmd = CMD_ATTITUDE
    /\ emitted[1].msg.size = 7
    /\ execLog = << [exec |-> "Attitude",
                     saw |-> [flightModel EXCEPT !.roll = 258, !.pitch = -1,
                                                 !.heading = -32768]] >>
    /\ flightModel.roll = -1
    /\ flightModel.pitch = -32768
    /\ flightModel.heading = 258
    /\ flightModel.armed
    /\ flightModel.channels[1] = 3 + (Pow8 * 4)

(***************************************************************************)
(* C14.  FC_VARIANT.  As claimed (C14_Original): after a valid frame with  *)
(* CMD=102 and LEN >= 4 the identifier equals the first 4 payload bytes,   *)
(* whatever was stored and whatever the bytes.  As amended (C14_Amended):  *)
(* stored identifier and payload are compared as strings, which end at the *)
(* first NUL; when the strings differ the identifier becomes the 4 payload *)
(* bytes and a NUL, when they are equal the identifier keeps its bytes,    *)
(* also those behind the NUL that differ from the payload's; the           *)
(* identifier equals the 4 payload bytes whenever none of them is NUL.     *)
(***************************************************************************)
\* the first 4 payload bytes of the frame this step delivers
Prefix4 == [c \in 0 .. 3 |-> PayloadByte(c)]

\* the string held in a[0..3]: the bytes in front of the first NUL
StringOf(a) ==
    LET nuls == {k \in 0 .. 3 : a[k] = 0}
        n == IF nuls = {} THEN 4 ELSE CHOOSE k \in nuls : \A m \in nuls : k <= m
    IN [k \in 1 .. n |-> a[k - 1]]

FcVariantDelivered == DeliversCmd(CMD_FC_VARIANT) /\ Delivered.bytes[LenPos] >= 4

C14_Original ==
    [][FcVariantDelivered =>
          \A c \in 0 .. 3 : flightModel'.fcIdentifier[c] = Prefix4[c]]_vars

C14_Amended ==
    [][FcVariantDelivered =>
          /\ StringOf(flightModel'.fcIdentifier) = StringOf(Prefix4)
          /\ StringOf(flightModel.fcIdentifier) # StringOf(Prefix4) =>
                flightModel'.fcIdentifier =
                    [c \in 0 .. 4 |-> IF c < 4 THEN Prefix4[c] ELSE 0]
          /\ StringOf(flightModel.fcIdentifier) = StringOf(Prefix4) =>
                flightModel'.fcIdentifier = flightModel.fcIdentifier
          /\ (\A c \in 0 .. 3 : Prefix4[c] # 0) =>
                \A c \in 0 .. 3 : flightModel'.fcIdentifier[c] = Prefix4[c]
          /\ SameOutside(flightModel', flightModel, {"fcIdentifier"})
          /\ RanOnlyFor(CMD_FC_VARIANT)
          /\ sent' = sent]_vars

\* "INAV" replaced a stored "BTFL"
C14_Witness ==
    /\ Len(emitted) = 1
    /\ emitted[1].msg.cmd = CMD_FC_VARIANT
    /\ emitted[1].msg.size = 4
    /\ Len(execLog) = 1
    /\ execLog[1].saw.fcIdentifier = [c \in 0 .. 4 |-> <<66, 84, 70, 76, 0>>[c + 1]]
    /\ flightModel.fcIdentifier = [c \in 0 .. 4 |-> <<73, 78, 65, 86, 0>>[c + 1]]
    /\ flightModel.armed

\* the payload 42 00 46 4C left a stored 42 00 58 59 in place
C14_NulKeepsStored ==
    /\ Len(emitted) = 1
    /\ emitted[1].bytes = MkFrameOf(CH_GT, CMD_FC_VARIANT, <<66, 0, 70, 76>>)
    /\ flightModel.fcIdentifier = [c \in 0 .. 4 |-> <<66, 0, 88, 89, 0>>[c + 1]]

(***************************************************************************)
(* C15.  RC: a valid frame with CMD=105 and LEN >= 32 sets channels[0..15] *)
(* to the 16 unsigned 16-bit values at the start of the payload, low byte  *)
(* first, in order, and leaves channels[16], channels[17] and every other  *)
(* field of the data model as they were.                                   *)
(***************************************************************************)
C15_Rc ==
    [][(DeliversCmd(CMD_RC) /\ Delivered.bytes[LenPos] >= 32) =>
          /\ \A c \in 0 .. 15 :
                flightModel'.channels[c] =
                    PayloadByte(2 * c) + (256 * PayloadByte((2 * c) + 1))
          /\ flightModel'.channels[16] = flightModel.channels[16]
          /\ flightModel'.channels[17] = flightModel.channels[17]
          /\ SameOutside(flightModel', flightModel, {"channels"})
          /\ RanOnlyFor(CMD_RC)]_vars

\* an RC frame of 36 payload bytes replaced sixteen channels of 65535 in an
\* armed data model that holds an attitude and an identifier
C15_Witness ==
    /\ Len(emitted) = 1
    /\ emitted[1].msg.cmd = CMD_RC
    /\ emitted[1].msg.size = 36
    /\ emitted[1].msg.payload[33] = 34
    /\ Len(execLog) >= 1
    /\ execLog[1].exec = "RcConsole"
    /\ execLog[1].saw.channels[15] = Pow16 - 1
    /\ flightModel.channels[0] = 1 + (Pow8 * 2)
    /\ flightModel.channels[15] = 31 + (Pow8 * 32)
    /\ flightModel.channels[16] = 0
    /\ flightModel.armed
    /\ flightModel.heading = -32768
    /\ flightModel.fcIdentifier[0] = 66

(***************************************************************************)
(* C16.  Arrival order and synchronous dispatch: while a buffer made of k  *)
(* well-formed frames is consumed from IDLE, the messages delivered so far *)
(* are the frames whose checksum byte has been consumed, in that order,    *)
(* each delivered on its checksum byte; the step that consumes a checksum  *)
(* byte runs the whole executor chain, so the data model holds the chain's *)
(* result when the next byte is consumed, and no other step of the loop    *)
(* changes the data model.                                                 *)
(***************************************************************************)
\* the checksum positions of the frames that tile s from position k on, or
\* <<0>> where no well-formed frame starts
RECURSIVE FrameEndsFrom(_, _)
FrameEndsFrom(s, k) ==
    IF k > Len(s) THEN <<>>
    ELSE IF FrameAt(s, k) THEN <<FrameEnd(s, k)>> \o FrameEndsFrom(s, FrameEnd(s, k) + 1)
    ELSE <<0>>

\* s is one well-formed frame after the other
IsFrameRun(s) == s # <<>> /\ \A k \in DOMAIN FrameEndsFrom(s, 1) : FrameEndsFrom(s, 1)[k] # 0

ArrivalOrder ==
    (pc = "loop" /\ startState = "IDLE" /\ IsFrameRun(buffer)) =>
        LET ends == FrameEndsFrom(buffer, 1)
            done == SelectSeq(ends, LAMBDA e : e <= i)
        IN /\ Len(emitted) = Len(done)
           /\ \A k \in 1 .. Len(done) :
                 /\ emitted[k].at = done[k]
                 /\ emitted[k].bytes =
                       SubSeq(buffer, (IF k = 1 THEN 1 ELSE done[k - 1] + 1), done[k])

SynchronousDispatch ==
    /\ Delivers =>
          LET msg == Delivered.msg
              n == Len(execLog')
          IN /\ i' = Delivered.at
             /\ i' = i + 1
             /\ n = Len(RegisteredFor(msg.cmd))
             /\ flightModel' =
                   IF n = 0 THEN flightModel
                   ELSE Execute(execLog'[n].exec, msg, execLog'[n].saw).dm
    /\ ~Delivers => flightModel' = flightModel

C16_ArrivalOrder == []ArrivalOrder /\ [][SynchronousDispatch]_vars

\* two of three frames consumed: the identifier of the first and the armed
\* flag of the second are in the data model, the third is still to come
C16_Witness ==
    /\ startState = "IDLE"
    /\ Len(FrameEndsFrom(buffer, 1)) = 3
    /\ IsFrameRun(buffer)
    /\ Len(emitted) = 2
    /\ i = emitted[2].at
    /\ i < Len(buffer)
    /\ emitted[1].msg.cmd = CMD_FC_VARIANT
    /\ emitted[2].msg.cmd = CMD_STATUS
    /\ ~execLog[1].saw.armed
    /\ flightModel.armed
    /\ flightModel.fcIdentifier[0] = 73

(***************************************************************************)
(* C17.  Byte-source failure is fatal for the read loop: once receiveData  *)
(* has returned a negative value main has left the loop, for a UDP source  *)
(* and for a file; after a read of length 0 main is still in the loop and  *)
(* has no byte to feed.  The loop does not stop on a failure of the UDP    *)
(* source: see C17_FailureIsFatal's trace.                                 *)
(***************************************************************************)
C17_FailureIsFatal ==
    /\ failed => pc = "done"
    /\ (pc \in {"loop", "done"} /\ bytesRead = 0) => (pc = "loop" /\ buffer = <<>>)

\* recvfrom failed and the loop went on to receive and parse a datagram
C17_UdpGoesOn ==
    /\ inputType = "udp"
    /\ failed
    /\ pc = "loop"
    /\ bytesRead > 0
    /\ i = Len(buffer)
    /\ flightModel.armed

(***************************************************************************)
(* C18.  Termination on end-of-stream: with a file as input main leaves    *)
(* the loop, and by then every byte of the file has been passed to         *)
(* processByte once, in file order: each byte passed is the file's next    *)
(* byte.                                                                   *)
(***************************************************************************)
C18_FileTerminates ==
    /\ (inputType = "file") ~> (pc = "done" /\ fed = m_file.content)
    /\ [][inputType = "file" =>
            \/ fed' = fed
            \/ /\ Len(fed) < Len(m_file.content)
               /\ fed' = Append(fed, m_file.content[Len(fed) + 1])]_vars

\* a file longer than the buffer was read to its end, its frame decoded
C18_Witness ==
    /\ inputType = "file"
    /\ pc = "done"
    /\ Len(m_file.content) > BUFFER_SIZE
    /\ fed = m_file.content
    /\ flightModel.armed

(***************************************************************************)
(* C19.  Any deviation resets silently and the offending byte is dropped:  *)
(* a byte other than 'M' after '$' ('$' included), a byte other than '<'   *)
(* or '>' after '$' 'M', and every byte in the checksum state leave the    *)
(* parser in IDLE with a cleared message and cursor 0; unless it is the    *)
(* matching checksum byte, nothing is delivered and no data model changes; *)
(* every processByte call returns with the parser in one of its states.    *)
(***************************************************************************)
ParserStates == {"IDLE", "VERSION", "DIRECTION", "SIZE", "CMD", "PAYLOAD", "CHECKSUM"}

Deviation(st, byte) ==
    \/ st = "VERSION" /\ byte # 77
    \/ st = "DIRECTION" /\ byte \notin {60, 62}
    \/ st = "CHECKSUM"

C19_SilentReset ==
    [][i' = i + 1 =>
          LET byte == buffer[i + 1]
          IN /\ m_state' \in ParserStates
             /\ Deviation(m_state, byte) =>
                   /\ m_state' = "IDLE"
                   /\ m_msg' = ResetMsg
                   /\ m_bufPtr' = 0
             /\ (Deviation(m_state, byte)
                   /\ ~(m_state = "CHECKSUM" /\ byte = XorRange(rx, LenPos, Len(rx)))) =>
                   /\ emitted' = emitted
                   /\ flightModel' = flightModel
                   /\ handlerModel' = handlerModel
                   /\ sent' = sent]_vars

\* '$' and a frame were fed from IDLE: the frame's '$' was dropped, not
\* taken as a start, and the frame was not delivered
C19_Witness ==
    /\ startState = "IDLE"
    /\ buffer = <<36, 36, 77, 60, 0, 7, 7>>
    /\ i = Len(buffer)
    /\ m_state = "IDLE"
    /\ m_msg = ResetMsg
    /\ emitted = <<>>
    /\ handlerModel.fbCursor = 0

(***************************************************************************)
(* C20.  Single data model: the data model MspMessageHandler stages each   *)
(* validated frame into is the one the executors read and write and the    *)
(* one main created, so what the handler sees and what main sees are equal *)
(* at all times.  They are not: MspMessageHandler::m_dataModel is a copy   *)
(* made at construction; see C20_SingleInstance's trace.                   *)
(***************************************************************************)
C20_SingleInstance == handlerModel = flightModel

\* after two frames the staging is in the handler's copy only and the
\* executors' updates are in main's data model only
C20_TwoModels ==
    /\ handlerModel.fbCursor = 2 * SizeofMspMessage
    /\ flightModel.fbCursor = 0
    /\ flightModel.armed
    /\ ~handlerModel.armed
    /\ flightModel.roll = 258
    /\ handlerModel.roll = 0

(***************************************************************************)
(* C21.  RC telemetry freshness: with RcCommandConsoleExecutor registered  *)
(* in front of RcCommandAlinkForwarder, a valid RC frame with LEN >= 32    *)
(* makes the forwarder send one line, whose fields after the timestamp are *)
(* LQ, LQ, RECOVERED, LOST, 20, 20, 20, 20 with LQ = channel 8, LOST =     *)
(* channel 10 mod 32 and RECOVERED = (channel 11 div 32) mod 32, the       *)
(* channels being those of this frame's payload; with LEN < 32 nothing is  *)
(* sent.                                                                   *)
(***************************************************************************)
\* channel c as carried by the frame this step delivers
FrameChannel(c) == PayloadByte(2 * c) + (256 * PayloadByte((2 * c) + 1))

ConsoleThenAlink ==
    RegisteredFor(CMD_RC) =
        << [cmd |-> CMD_RC, kind |-> "RcConsole"], [cmd |-> CMD_RC, kind |-> "RcAlink"] >>

C22_PayloadTailZero ==
    \A k \in 1 .. Len(emitted) :
        \A j \in PayloadIdx :
            j >= emitted[k].msg.size => emitted[k].msg.payload[j] = 0

\* a frame of one payload byte delivered behind a frame of two
C22_Witness ==
    /\ Len(emitted) = 2
    /\ emitted[1].msg.size = 2
    /\ emitted[1].msg.payload[1] = 1
    /\ emitted[2].msg.size = 1
    /\ emitted[2].msg.payload[0] = 36
    /\ emitted[2].msg.payload[1] = 0

(***************************************************************************)
(* C23.  No mid-frame resynchronisation: after '$', 'M', a direction byte  *)
(* and a length byte L the parser takes the next byte as the command, the  *)
(* L bytes after it as payload and the byte after those as checksum,       *)
(* whatever their values; it is in IDLE again after exactly L + 2 bytes    *)
(* and in none of the states in between, and never starts a frame inside.  *)
(***************************************************************************)
InFrame == m_state \in {"CMD", "PAYLOAD", "CHECKSUM"}

\* the state the parser is in with n bytes consumed behind a length byte L
StateBehindLength(L, n) ==
    IF n = 0 THEN "CMD" ELSE IF n < L + 1 THEN "PAYLOAD" ELSE "CHECKSUM"

FrameWindow ==
    InFrame =>
        /\ Len(rx) >= LenPos
        /\ rx[1] = 36 /\ rx[2] = 77 /\ rx[3] \in {60, 62}
        /\ Len(rx) - LenPos < rx[LenPos] + 2
        /\ m_state = StateBehindLength(rx[LenPos], Len(rx) - LenPos)

WindowStep ==
    (InFrame /\ i' = i + 1) =>
        IF Len(rx) - LenPos = rx[LenPos] + 1
        THEN m_state' = "IDLE"
        ELSE /\ rx' = Append(rx, buffer[i + 1])
             /\ m_state' \in {"PAYLOAD", "CHECKSUM"}

C23_NoMidFrameResync == []FrameWindow /\ [][WindowStep]_vars

\* '$' 'M' '<' consumed as payload bytes of a frame of length 6
C23_Witness ==
    /\ m_state = "PAYLOAD"
    /\ rx = <<36, 77, 60, 6, 7, 36, 77, 60>>
    /\ m_msg.payload[0] = 36
    /\ m_bufPtr = 3
    /\ emitted = <<>>

(***************************************************************************)
(* C24.  Payload cursor bound: always 0 <= m_bufPtr <= size <= 255; in the *)
(* PAYLOAD state m_bufPtr < size and size >= 1, so the index of every      *)
(* payload write is below MSP_MAX_PAYLOAD_SIZE; in IDLE the cursor is 0,   *)
(* the size is 0 and the command is UNKNOWN.                               *)
(***************************************************************************)
C24_CursorBound ==
    /\ 0 <= m_bufPtr
    /\ m_bufPtr <= m_msg.size
    /\ m_msg.size <= 255
    /\ m_state = "PAYLOAD" =>
          /\ m_bufPtr < m_msg.size
          /\ m_msg.size >= 1
          /\ m_bufPtr < MSP_MAX_PAYLOAD_SIZE
    /\ m_state = "IDLE" =>
          /\ m_bufPtr = 0
          /\ m_msg.size = 0
          /\ m_msg.cmd = CMD_UNKNOWN

\* the last payload byte of the longest frame is about to be written
C24_Witness ==
    /\ m_state = "PAYLOAD"
    /\ m_msg.size = 255
    /\ m_bufPtr = 254
    /\ m_msg.payload[253] = 1

(***************************************************************************)
(* C25.  Staging buffer bound: the staging cursor of a data model is       *)
(* always between 0 and FRAME_BUFFER_SIZE and a whole multiple of the size *)
(* of an MspMessage; each delivered message is copied at the cursor, or at *)
(* 0 when cursor plus record size exceeds the buffer and in no other case, *)
(* so the copy ends inside the buffer; no other step moves the cursor.     *)
(***************************************************************************)
CursorInBuffer(dm) ==
    /\ 0 <= dm.fbCursor
    /\ dm.fbCursor <= 1024
    /\ dm.fbCursor % SizeofMspMessage = 0

StagingStep ==
    IF Delivers
    THEN LET start == handlerModel'.fbCursor - SizeofMspMessage
         IN /\ start = (IF handlerModel.fbCursor + SizeofMspMessage > 1024
                        THEN 0 ELSE handlerModel.fbCursor)
            /\ start >= 0
            /\ start + SizeofMspMessage <= 1024
    ELSE handlerModel'.fbCursor = handlerModel.fbCursor

C25_StagingBound ==
    /\ [](CursorInBuffer(handlerModel) /\ CursorInBuffer(flightModel))
    /\ [][StagingStep]_vars

\* the second frame of a buffer found no room behind three staged records
\* and was copied to the start of the buffer
C25_Witness ==
    /\ Len(emitted) = 2
    /\ i = emitted[2].at
    /\ handlerModel.fbCursor = SizeofMspMessage
    /\ execLog # <<>>

====
